---- MODULE Spec2Model ----
(***************************************************************************)
(* Model of orcus::parser_base (src/src/parser/parser_base.cpp): a cursor   *)
(* over a borrowed byte buffer with skip / match / numeric operations, in   *)
(* its three builds (scalar, SSE4.2, AVX2 + SSE4.2).                        *)
(*                                                                         *)
(* Pointers are 1-based indexes into buf: mp_begin = 1 is the address of    *)
(* the first byte and mp_end = Len(buf) + 1 is one past the last byte.      *)
(* Bytes are kept as unsigned values 0..255.                                *)
(***************************************************************************)
EXTENDS Integers, Sequences, FiniteSets

VARIABLES build, buf, mp_begin, mp_char, mp_end, last

vars == <<build, buf, mp_begin, mp_char, mp_end, last>>

(* ------------------------------------------------------------------ *)
(* Program constants                                                   *)
(* ------------------------------------------------------------------ *)

\* width in bytes of one __m128i register / window
W16 == 16

\* width in bytes of one __m256i register / window
W32 == 32

\* ' ', the whitespace threshold
SPACE == 32

\* 0x80, the sign bit of a byte
SIGN_BIT == 128

(* ------------------------------------------------------------------ *)
(* Bounds of the model                                                 *)
(* ------------------------------------------------------------------ *)

\* longest repetition inside the tail appended to the run of spaces of a buffer
MaxTail == 1

\* the numeric strategy consumes 0..MaxConsume bytes, or everything
MaxConsume == 1

\* largest argument of prev()
MaxDec == 1

(* ------------------------------------------------------------------ *)
(* Inputs                                                              *)
(* ------------------------------------------------------------------ *)

\* tab, space, 'A', 0x80
Alphabet == {9, SPACE, 65, SIGN_BIT}

Builds == {"scalar", "sse42", "avx2"}

Fill(c, k) == [i \in 1..k |-> c]

Min(a, b) == IF a < b THEN a ELSE b

\* a buffer is empty or a run of spaces one byte longer than the widest
\* window, followed by a short tail; the cursor reaches every
\* position of it, so every shorter run before the tail or the end occurs
RunLens == {0, W32 + 1}

\* tails: nothing, any single byte, a 0x80 followed by 1..MaxTail tabs, or a
\* tab followed by 1..MaxTail bytes 0x80
Tails ==
    {<<>>} \cup {<<c>> : c \in Alphabet}
    \cup {<<SIGN_BIT>> \o Fill(9, j) : j \in 1..MaxTail}
    \cup {<<9>> \o Fill(SIGN_BIT, j) : j \in 1..MaxTail}

Buffers == {Fill(SPACE, k) \o t : k \in RunLens, t \in Tails}

\* what a load past the buffer (or past an argument string) may find
Garbage == {SPACE, 65}

\* chars_to_skip arguments: empty, two members, and sixteen and seventeen
\* members with the space as the last one
SkipSets ==
    { <<>>, <<9, SPACE>>,
      [i \in 1..W16 |-> IF i < W16 THEN i + 100 ELSE SPACE],
      [i \in 1..(W16 + 1) |-> IF i <= W16 THEN i + 100 ELSE SPACE] }

\* expected tokens: nothing, spaces (below, at and above the register width),
\* spaces then 'A', and 'A' then spaces
Tokens ==
    { <<>>, <<SPACE>>, <<SPACE, 65>>,
      Fill(SPACE, W16), Fill(SPACE, W16 + 1),
      <<65>> \o Fill(SPACE, W16 - 1) }

\* values a numeric strategy may hand back
Values == {"NaN", "123.45"}

(* ------------------------------------------------------------------ *)
(* Inline members of parser_base                                       *)
(* ------------------------------------------------------------------ *)

has_char(p) == p < mp_end

available_size(p) == mp_end - p

\* the byte at address a; g stands for whatever lies past the buffer
Mem(a, g) == IF a >= mp_begin /\ a < mp_end THEN buf[a - mp_begin + 1] ELSE g

\* is_in(c, set): linear membership
is_in(c, set) == \E j \in 1..Len(set) : set[j] = c

\* value of a byte read through a (signed) char
ToSigned(b) == IF b >= SIGN_BIT THEN b - 256 ELSE b

\* _mm_loadu_si128 / _mm256_loadu_si256 at address a: always w bytes
LoadBlock(a, w, g) == [i \in 1..w |-> Mem(a + i - 1, g)]

\* _mm_loadu_si128 of a caller-supplied string s
LoadArg(s, g) == [i \in 1..W16 |-> IF i <= Len(s) THEN s[i] ELSE g]

\* explicit lengths of pcmpestri / pcmpestrm saturate at the register width
Saturate(n) == Min(n, W16)

(* ------------------------------------------------------------------ *)
(* SSE4.2 string instructions, as the source's imm8 modes use them     *)
(* ------------------------------------------------------------------ *)

\* the la valid bytes of match (la saturated)
ValidBytes(match, la) == {match[j] : j \in 1..Saturate(la)}

\* bit i of the result of CMP_EQUAL_ANY | NEGATIVE_POLARITY: byte i of block
\* is none of the valid bytes of match; a bit past lb is forced false by the
\* comparison and set by the (unmasked) negation
any_bit(valid, block, lb, i) == ~(i < Saturate(lb) /\ block[i + 1] \in valid)

RECURSIVE any_first(_, _, _, _)
any_first(valid, block, lb, i) ==
    IF i = W16 THEN W16
    ELSE IF any_bit(valid, block, lb, i) THEN i
    ELSE any_first(valid, block, lb, i + 1)

\* _mm_cmpestri(match, la, block, lb, LEAST_SIGNIFICANT | CMP_EQUAL_ANY |
\* UBYTE_OPS | NEGATIVE_POLARITY): index of the least set bit, else 16
cmpestri_any(match, la, block, lb) == any_first(ValidBytes(match, la), block, lb, 0)

\* as ranges_bit, with the byte just past the valid length taken as valid
ranges_bit_one_past(match, la, block, lb, i) ==
    ~(i <= Saturate(lb)
        /\ \E k \in 0..((Saturate(la) \div 2) - 1) :
              /\ match[2 * k + 1] <= block[i + 1]
              /\ block[i + 1] <= match[2 * k + 2])

\* bit i of the result of CMP_RANGES | NEGATIVE_POLARITY: byte i of block is
\* outside every unsigned range [match[2k], match[2k+1]] among the la valid
\* bytes of match
ranges_bit(match, la, block, lb, i) ==
    ~(i < Saturate(lb)
        /\ \E k \in 0..((Saturate(la) \div 2) - 1) :
              /\ match[2 * k + 1] <= block[i + 1]
              /\ block[i + 1] <= match[2 * k + 2])

RECURSIVE ranges_first(_, _, _, _, _)
ranges_first(match, la, block, lb, i) ==
    IF i = W16 THEN W16
    ELSE IF ranges_bit(match, la, block, lb, i) THEN i
    ELSE ranges_first(match, la, block, lb, i + 1)

\* _mm_cmpestri(match, la, block, lb, LEAST_SIGNIFICANT | CMP_RANGES |
\* UBYTE_OPS | NEGATIVE_POLARITY): index of the least set bit, else 16
cmpestri_ranges(match, la, block, lb) == ranges_first(match, la, block, lb, 0)

\* bit i of _mm_cmpestrm(a, la, b, lb, CMP_EQUAL_ORDERED | UBYTE_OPS |
\* BIT_MASK): the needle a matches the haystack b from index i up to the end
\* of the register; an invalid needle byte compares true, a valid needle byte
\* against an invalid haystack byte compares false
ordered_bit(a, la, b, lb, i) ==
    \A j \in 0..(W16 - 1 - i) :
        \/ j >= Saturate(la)
        \/ (i + j < Saturate(lb) /\ a[j + 1] = b[i + j + 1])

\* _mm_cvtsi128_si32(_mm_cmpestrm(...)) != 0: some bit of the mask is set
cmpestrm_ordered(a, la, b, lb) == \E i \in 0..(W16 - 1) : ordered_bit(a, la, b, lb, i)

(* ------------------------------------------------------------------ *)
(* skip(chars_to_skip, n_chars_to_skip)                                *)
(* Each path yields [pos |-> final mp_char, hi |-> one past the highest *)
(* address it loaded from (0 when it loaded nothing)].                 *)
(* ------------------------------------------------------------------ *)

Max(a, b) == IF a > b THEN a ELSE b

RECURSIVE skip_sse42_loop(_, _, _, _, _)
skip_sse42_loop(p, n_total, chars, g, hi) ==
    IF n_total = 0 THEN [pos |-> p, hi |-> hi]
    ELSE LET char_block == LoadBlock(p, W16, g)
             n == Min(W16, n_total)
             r == cmpestri_any(LoadArg(chars, g), Len(chars), char_block, n)
             hi2 == Max(hi, p + W16)
         IN  IF r = 0 THEN [pos |-> p, hi |-> hi2]
             ELSE IF r < W16 THEN [pos |-> p + r, hi |-> hi2]
             ELSE skip_sse42_loop(p + r, n_total - W16, chars, g, hi2)

skip_sse42(p, chars, g) == skip_sse42_loop(p, available_size(p), chars, g, 0)

RECURSIVE skip_scalar_loop(_, _, _)
skip_scalar_loop(p, chars, hi) ==
    IF ~has_char(p) THEN [pos |-> p, hi |-> hi]
    ELSE IF ~is_in(Mem(p, 0), chars) THEN [pos |-> p, hi |-> Max(hi, p + 1)]
    ELSE skip_scalar_loop(p + 1, chars, Max(hi, p + 1))

skip_scalar(p, chars) == skip_scalar_loop(p, chars, 0)

\* the path the build compiles in
skip_impl(p, chars, g) ==
    IF build \in {"sse42", "avx2"} THEN skip_sse42(p, chars, g) ELSE skip_scalar(p, chars)

(* ------------------------------------------------------------------ *)
(* skip_space_and_control()                                            *)
(* ------------------------------------------------------------------ *)

\* as avx2_lane, without the sign-bit term
avx2_lane_signed_only(b) == ToSigned(b) > ToSigned(SPACE)

\* one lane of _mm256_cmpgt_epi8(char_block, ws) | (char_block & sb), as
\* _mm256_movemask_epi8 sees it: the signed compare with ' ', or the sign bit
avx2_lane(b) == ToSigned(b) > ToSigned(SPACE) \/ b >= SIGN_BIT

RECURSIVE avx2_tzcnt_from(_, _)
avx2_tzcnt_from(char_block, i) ==
    IF i = W32 THEN W32
    ELSE IF avx2_lane(char_block[i + 1]) THEN i
    ELSE avx2_tzcnt_from(char_block, i + 1)

\* _tzcnt_u32(_mm256_movemask_epi8(results)): index of the least set bit, else 32
avx2_tzcnt(char_block) == avx2_tzcnt_from(char_block, 0)

\* r = std::min<size_t>(r, n_total)
avx2_clamp(r, n_total) == Min(r, n_total)

RECURSIVE space_avx2_loop(_, _, _, _)
space_avx2_loop(p, n_total, g, hi) ==
    IF n_total = 0 THEN [pos |-> p, hi |-> hi]
    ELSE LET char_block == LoadBlock(p, W32, g)
             r == avx2_clamp(avx2_tzcnt(char_block), n_total)
             hi2 == Max(hi, p + W32)
         IN  IF r = 0 THEN [pos |-> p, hi |-> hi2]
             ELSE IF r < W32 THEN [pos |-> p + r, hi |-> hi2]
             ELSE space_avx2_loop(p + r, n_total - W32, g, hi2)

space_avx2(p, g) == space_avx2_loop(p, available_size(p), g, 0)

\* the 16 bytes loaded from the literal "\0 ": NUL, ' ', the terminator, then
\* whatever follows the literal
space_match(g) == LoadArg(<<0, SPACE, 0>>, g)

RECURSIVE space_sse42_loop(_, _, _, _)
space_sse42_loop(p, n_total, g, hi) ==
    IF n_total = 0 THEN [pos |-> p, hi |-> hi]
    ELSE LET char_block == LoadBlock(p, W16, g)
             n == Min(W16, n_total)
             r == cmpestri_ranges(space_match(g), 2, char_block, n)
             hi2 == Max(hi, p + W16)
         IN  IF r = 0 THEN [pos |-> p, hi |-> hi2]
             ELSE IF r < W16 THEN [pos |-> p + r, hi |-> hi2]
             ELSE space_sse42_loop(p + r, n_total - W16, g, hi2)

space_sse42(p, g) == space_sse42_loop(p, available_size(p), g, 0)

\* ((unsigned char)*mp_char) <= (unsigned char)' '
space_scalar_test(b) == b <= SPACE

RECURSIVE space_scalar_loop(_, _)
space_scalar_loop(p, hi) ==
    IF p = mp_end THEN [pos |-> p, hi |-> hi]
    ELSE IF ~space_scalar_test(Mem(p, 0)) THEN [pos |-> p, hi |-> Max(hi, p + 1)]
    ELSE space_scalar_loop(p + 1, Max(hi, p + 1))

space_scalar(p) == space_scalar_loop(p, 0)

\* the path the build compiles in: AVX2 first, then SSE4.2, then scalar
space_impl(p, g) ==
    IF build = "avx2" THEN space_avx2(p, g)
    ELSE IF build = "sse42" THEN space_sse42(p, g)
    ELSE space_scalar(p)

(* ------------------------------------------------------------------ *)
(* parse_expected(expected, n_expected)                                *)
(* Each path yields [pos, ret, hi].                                    *)
(* ------------------------------------------------------------------ *)

\* as expected_too_long, with the length check dropped
expected_too_long_never(p, n_expected) == FALSE

\* if (n_expected > available_size()) return false;
expected_too_long(p, n_expected) == n_expected > available_size(p)

expected_sse42(p, expected, n_expected, g) ==
    LET v_expected == LoadArg(expected, g)
        v_char_block == LoadBlock(p, W16, g)
        mask == cmpestrm_ordered(v_expected, n_expected, v_char_block, n_expected)
    IN  [pos |-> IF mask THEN p + n_expected ELSE p,
         ret |-> mask,
         hi  |-> p + W16]

RECURSIVE expected_scalar_loop(_, _, _, _, _)
expected_scalar_loop(p, expected, n_expected, i, hi) ==
    IF i >= n_expected THEN [pos |-> p, ret |-> TRUE, hi |-> hi]
    ELSE IF Mem(p, 0) # expected[i + 1] THEN [pos |-> p, ret |-> FALSE, hi |-> Max(hi, p + 1)]
    ELSE expected_scalar_loop(p + 1, expected, n_expected, i + 1, Max(hi, p + 1))

expected_scalar(p, expected, n_expected) == expected_scalar_loop(p, expected, n_expected, 0, 0)

expected_impl(p, expected, n_expected, g) ==
    IF expected_too_long(p, n_expected) THEN [pos |-> p, ret |-> FALSE, hi |-> 0]
    ELSE IF build \in {"sse42", "avx2"} THEN expected_sse42(p, expected, n_expected, g)
    ELSE expected_scalar(p, expected, n_expected)

(* ------------------------------------------------------------------ *)
(* parse_double()                                                      *)
(* The numeric strategy is an input: it is handed (p, max_length),     *)
(* moves p forward by `consumed` bytes and returns `val`.              *)
(* Yields [pos, ret, arg_p, arg_len].                                  *)
(* ------------------------------------------------------------------ *)

\* as double_impl, without the test for an unmoved pointer
double_impl_unchecked(mp, consumed, val) ==
    [pos |-> mp + consumed, ret |-> val, arg_p |-> mp, arg_len |-> available_size(mp)]

double_impl(mp, consumed, val) ==
    LET max_length == available_size(mp)
        p == mp + consumed
    IN  IF p = mp
        THEN [pos |-> mp, ret |-> "NaN", arg_p |-> mp, arg_len |-> max_length]
        ELSE [pos |-> p, ret |-> val, arg_p |-> mp, arg_len |-> max_length]

\* size_t remaining_size() const
remaining_size(p) == LET n == available_size(p) IN IF n # 0 THEN n - 1 ELSE 0

\* std::ptrdiff_t offset() const
offset == mp_char - mp_begin

(* ------------------------------------------------------------------ *)
(* State machine                                                       *)
(* last records the latest call: its name, the cursor before it, its   *)
(* argument, its return value, the bytes it reports as consumed (n for *)
(* a successful match, none for a failed one, negative for a rewind),  *)
(* one past the highest address it loaded from, and what the numeric   *)
(* strategy was handed and gave back.                                  *)
(* ------------------------------------------------------------------ *)

Call(op, pre, arg, ret, delta, hi) ==
    [op |-> op, pre |-> pre, arg |-> arg, ret |-> ret, delta |-> delta, hi |-> hi,
     arg_p |-> 0, arg_len |-> 0, consumed |-> 0, val |-> ""]

BoolStr(b) == IF b THEN "true" ELSE "false"

\* parser_base(p, n, transient_stream)
Init ==
    /\ build \in Builds
    /\ buf \in Buffers
    /\ mp_begin = 1
    /\ mp_char = mp_begin
    /\ mp_end = mp_begin + Len(buf)
    /\ last = Call("parser_base", mp_begin, <<>>, "void", 0, 0)

\* void next(): the caller keeps the cursor inside the buffer
next ==
    /\ has_char(mp_char)
    /\ mp_char' = mp_char + 1
    /\ last' = Call("next", mp_char, <<>>, "void", 1, 0)
    /\ UNCHANGED <<build, buf, mp_begin, mp_end>>

\* mp_char -= dec
prev_impl(p, dec) == p - dec

\* void prev(size_t dec): the caller keeps the cursor inside the buffer
prev ==
    \E dec \in 1..MaxDec :
        /\ dec <= mp_char - mp_begin
        /\ mp_char' = prev_impl(mp_char, dec)
        /\ last' = Call("prev", mp_char, <<>>, "void", 0 - dec, 0)
        /\ UNCHANGED <<build, buf, mp_begin, mp_end>>

skip ==
    \E chars \in SkipSets, g \in Garbage :
        LET r == skip_impl(mp_char, chars, g) IN
        /\ mp_char' = r.pos
        /\ last' = Call("skip", mp_char, chars, "void", r.pos - mp_char, r.hi)
        /\ UNCHANGED <<build, buf, mp_begin, mp_end>>

skip_space_and_control ==
    \E g \in Garbage :
        LET r == space_impl(mp_char, g) IN
        /\ mp_char' = r.pos
        /\ last' = Call("skip_space_and_control", mp_char, <<>>, "void", r.pos - mp_char, r.hi)
        /\ UNCHANGED <<build, buf, mp_begin, mp_end>>

parse_expected ==
    \E expected \in Tokens, g \in Garbage :
        LET r == expected_impl(mp_char, expected, Len(expected), g) IN
        /\ mp_char' = r.pos
        /\ last' = Call("parse_expected", mp_char, expected, BoolStr(r.ret),
                        IF r.ret THEN Len(expected) ELSE 0, r.hi)
        /\ UNCHANGED <<build, buf, mp_begin, mp_end>>

\* what a numeric strategy may consume of max_length bytes
ConsumeChoices(max_length) == {k \in 0..max_length : k <= MaxConsume \/ k = max_length}

parse_double ==
    \E consumed \in ConsumeChoices(available_size(mp_char)), val \in Values :
        LET r == double_impl(mp_char, consumed, val) IN
        /\ mp_char' = r.pos
        /\ last' = [op |-> "parse_double", pre |-> mp_char, arg |-> <<>>, ret |-> r.ret,
                    delta |-> consumed, hi |-> 0, arg_p |-> r.arg_p, arg_len |-> r.arg_len,
                    consumed |-> consumed, val |-> val]
        /\ UNCHANGED <<build, buf, mp_begin, mp_end>>

Next ==
    \/ next
    \/ prev
    \/ skip
    \/ skip_space_and_control
    \/ parse_expected
    \/ parse_double

Spec == Init /\ [][Next]_vars

(* ------------------------------------------------------------------ *)
(* Properties                                                          *)
(* ------------------------------------------------------------------ *)

\* the n bytes at address p are byte-for-byte equal to expected
BytesEqual(p, expected) ==
    \A i \in 1..Len(expected) : has_char(p + i - 1) /\ Mem(p + i - 1, 0) = expected[i]

\* C1: whenever parse_expected returns failure (too long, or a mismatch, also
\* one after a matching prefix), current equals its value before the call.
C1_FailureRestoresCursor ==
    (last.op = "parse_expected" /\ last.ret = "false") => mp_char = last.pre

\* C2: parse_expected returns success exactly when n <= available_size() and
\* the n bytes at current equal expected; on success current advanced by n.
C2_SuccessIffMatch ==
    last.op = "parse_expected" =>
        /\ (last.ret = "true") <=>
              (Len(last.arg) <= available_size(last.pre) /\ BytesEqual(last.pre, last.arg))
        /\ last.ret = "true" => mp_char = last.pre + Len(last.arg)

\* C3: skip leaves current at the first position at or after the start whose
\* byte is not a member of the skip-set, or at end; a repeated skip with the
\* same set leaves the cursor unchanged.
C3_SkipStopsAtFirstNonMember ==
    last.op = "skip" =>
        /\ last.pre <= mp_char /\ mp_char <= mp_end
        /\ \A a \in last.pre..(mp_char - 1) : is_in(Mem(a, 0), last.arg)
        /\ has_char(mp_char) => ~is_in(Mem(mp_char, 0), last.arg)
        /\ \A g \in Garbage : skip_impl(mp_char, last.arg, g).pos = mp_char

\* C4: skip_space_and_control leaves current at the first position at or
\* after the start whose unsigned byte is greater than the space, or at end;
\* it never advances past a byte >= 0x80.
C4_SpaceStopsAtFirstAboveSpace ==
    last.op = "skip_space_and_control" =>
        /\ last.pre <= mp_char /\ mp_char <= mp_end
        /\ \A a \in last.pre..(mp_char - 1) : Mem(a, 0) <= SPACE /\ Mem(a, 0) < SIGN_BIT
        /\ has_char(mp_char) => Mem(mp_char, 0) > SPACE

\* C4 witness: the AVX2 path crossed a full window of spaces and stopped at a
\* byte >= 0x80 that a control character follows.
C4_Witness ==
    /\ last.op = "skip_space_and_control"
    /\ build = "avx2"
    /\ mp_char - last.pre >= W32
    /\ has_char(mp_char + 1)
    /\ Mem(mp_char, 0) >= SIGN_BIT
    /\ Mem(mp_char + 1, 0) = 9

\* C5: parse_double hands the strategy (current, available_size()); if the
\* strategy consumes nothing the result is NaN and current is unchanged,
\* otherwise current is where the strategy stopped and the value is the
\* strategy's.
C5_ParseDoubleAdapter ==
    last.op = "parse_double" =>
        /\ last.arg_p = last.pre
        /\ last.arg_len = mp_end - last.pre
        /\ last.consumed = 0 => (last.ret = "NaN" /\ mp_char = last.pre)
        /\ last.consumed > 0 => (last.ret = last.val /\ mp_char = last.pre + last.consumed)

\* C5 witness: away from the start of the buffer, a strategy that consumed
\* nothing although it produced a number.
C5_Witness ==
    /\ last.op = "parse_double"
    /\ last.pre > mp_begin
    /\ last.consumed = 0
    /\ last.val = "123.45"
    /\ last.ret = "NaN"

\* C6: start <= current <= end in every reachable state, and start and end
\* stay where the constructor put them.
C6_CursorInBounds ==
    /\ mp_begin <= mp_char
    /\ mp_char <= mp_end
    /\ mp_begin = 1
    /\ mp_end = mp_begin + Len(buf)

\* C6 witness: a match of a token longer than one register that ends exactly
\* at the end of the buffer.
C6_Witness ==
    /\ last.op = "parse_expected"
    /\ last.ret = "true"
    /\ Len(last.arg) > W16
    /\ mp_char = mp_end

\* C7: no scanning operation loads a buffer byte at a position at or beyond
\* end.
C7_NoReadPastEnd == last.hi <= mp_end

\* C8: for every buffer, start and skip-set, the 16-byte-window path and the
\* byte-by-byte path of skip end at the same position.
C8_SkipPathsAgree ==
    last.op = "skip" =>
        \A g \in Garbage :
            /\ skip_sse42(last.pre, last.arg, g).pos = skip_scalar(last.pre, last.arg).pos
            /\ skip_scalar(last.pre, last.arg).pos = mp_char

\* C9: the three paths of skip_space_and_control end at the same position,
\* which is where the call left the cursor.
C9_SpacePathsAgree ==
    last.op = "skip_space_and_control" =>
        \A g \in Garbage :
            /\ space_avx2(last.pre, g).pos = mp_char
            /\ space_sse42(last.pre, g).pos = mp_char
            /\ space_scalar(last.pre).pos = mp_char

\* C9 witness: a run ending in a control character that exactly fills one
\* 16-byte window, with a byte >= 0x80 right after it.
C9_Witness ==
    /\ last.op = "skip_space_and_control"
    /\ mp_char - last.pre = W16
    /\ has_char(mp_char)
    /\ Mem(mp_char, 0) >= SIGN_BIT
    /\ Mem(mp_char - 1, 0) = 9

\* C10: offset() is 0 after construction and afterwards equals the net
\* number of bytes consumed by successful calls minus bytes rewound.
C10_OffsetIsNetConsumed ==
    /\ last.op = "parser_base" => offset = 0
    /\ last.op # "parser_base" => offset = (last.pre - mp_begin) + last.delta

====
